---- MODULE Spec2Model ----
(***************************************************************************)
(* pinbot-rs: the gateway dispatch loop of main() and the interaction      *)
(* handler handle_command() of src/main.rs.                                *)
(*                                                                         *)
(* One event is handled at a time.  Every REST call is an await point: the *)
(* step that reaches it appends the request to `calls` with result         *)
(* "pending", and a separate step delivers "ok" or "err" and runs the code *)
(* up to the next await point.  A failed expect()/unwrap() is a panic: it  *)
(* unwinds out of main, so the process is gone (status = "panicked").      *)
(***************************************************************************)
EXTENDS Integers, Sequences, FiniteSets, TLC

VARIABLES
    user_id,      \* main: `let mut user_id = None` (Option<Id<UserMarker>>)
    status,       \* "running" | "exited" (break, Ok(())) | "panicked"
    pc,           \* await point the loop is suspended at
    event,        \* the result of shard.next_event() being processed
    calls,        \* REST requests issued for `event`, in order, with results
    logged,       \* log lines written while processing `event`
    prev,         \* history: how the event processed before `event` ended
    first_ready,  \* history: identity carried by the first Ready event
    last_ready    \* history: identity carried by the most recent Ready event

vars == <<user_id, status, pc, event, calls, logged, prev, first_ready, last_ready>>

----------------------------------------------------------------------------
(* Bounds of the input domains *)

MaxUserId == 2     \* user ids 1..MaxUserId (Ready identity, message author)
MaxId == 1         \* number of guild ids, of channel ids and of message ids

UserIds == 1..MaxUserId
GuildIds == {100 + i : i \in 1..MaxId}
ChannelIds == {200 + i : i \in 1..MaxId}
MessageIds == {300 + i : i \in 1..MaxId}
UserNames == {"Alice", "Bob"}
ChannelNames == {"general"}
CommandNames == {"Pin Message", "Unpin Message", "Purge"}
MessageTypes == {"ChannelMessagePinned", "Regular"}

----------------------------------------------------------------------------
(* Option<T> *)

None == <<>>
Some(x) == <<x>>
IsSome(o) == o # None
Unwrap(o) == o[1]

OptionOf(S) == {None} \cup {Some(x) : x \in S}

----------------------------------------------------------------------------
(* Results of shard.next_event() *)

Channels == [id : ChannelIds, name : OptionOf(ChannelNames)]

ReadyEvents == [type : {"Ready"}, user : UserIds]

\* Interaction with data = Some(InteractionData::ApplicationCommand(data)).
\* author is what Interaction::author() yields: the name of member.user or user.
CommandEvents ==
    [type : {"InteractionCreate"}, data : {"ApplicationCommand"},
     guild_id : OptionOf(GuildIds), channel : OptionOf(Channels),
     name : CommandNames, resolved : OptionOf(MessageIds),
     author : OptionOf(UserNames)]

\* Interactions whose data is absent or of another variant (component, modal).
NonCommandEvents ==
    [type : {"InteractionCreate"}, data : {"MessageComponent", "None"},
     guild_id : OptionOf({101}), channel : {Some([id |-> 201, name |-> None])},
     name : {""}, resolved : {None}, author : {Some("Alice")}]

MessageEvents ==
    [type : {"MessageCreate"}, author : UserIds, kind : MessageTypes,
     channel_id : ChannelIds, id : MessageIds]

ErrorEvents == [type : {"Error"}, fatal : BOOLEAN]

OtherEvents == [type : {"Other"}]

NoEvent == [type |-> "NoEvent"]

\* history summary of an event whose processing wrote the log lines
Outcome(e, lines) ==
    CASE e.type = "NoEvent" -> "NoEvent"
      [] e.type = "Error" -> "TransportError"
      [] lines # <<>> /\ lines[Len(lines)] = "Command failed" -> "CommandFailed"
      [] lines # <<>> /\ lines[Len(lines)] = "Failed to delete pin message" ->
             "DeleteFailed"
      [] OTHER -> "Done"

----------------------------------------------------------------------------
(* REST requests *)

Call(op, args) == [op |-> op, args |-> args, res |-> "pending"]

Issue(cs, op, args) == Append(cs, Call(op, args))

\* the pending request, which is always the last one issued, returns r
Returned(cs, r) == [cs EXCEPT ![Len(cs)].res = r]

Results == {"ok", "err"}

----------------------------------------------------------------------------
(* Payloads built by the program *)

DEFER == [kind |-> "DeferredChannelMessageWithSource", data |-> None]

GUILD_ONLY_TEXT ==
    "You can't pin messages in a direct message channel. Try in a server instead!"

guild_only ==
    [kind |-> "ChannelMessageWithSource",
     data |-> Some([content |-> Some(GUILD_ONLY_TEXT)])]

FAILURE_TEXT == "Encountered some error, sorry about that... Try again?"

\* link!(label, url)
link(label, url) ==
    [style |-> "Link", url |-> Some(url), custom_id |-> None,
     disabled |-> FALSE, label |-> Some(label), emoji |-> None]

\* row!(component): one ActionRow holding the component
row(component) == << [components |-> <<component>>] >>

\* format!("https://discord.com/channels/{}/{}/{}", guild_id, channel_id, message.id)
MessageUrl(guild_id, channel_id, message_id) ==
    "https://discord.com/channels/" \o ToString(guild_id) \o "/"
        \o ToString(channel_id) \o "/" \o ToString(message_id)

button(guild_id, channel_id, message_id) ==
    row(link("Message", MessageUrl(guild_id, channel_id, message_id)))

\* format!("\u{1F4CC} **{}** {}pinned message in this channel.", username,
\*         if pin { "" } else { "un" })
SwappedVerbContent(username, pin) ==
    "\\u{1F4CC} **" \o username \o "** " \o (IF pin THEN "un" ELSE "")
        \o "pinned message in this channel."

SuccessContent(username, pin) ==
    "\\u{1F4CC} **" \o username \o "** " \o (IF pin THEN "" ELSE "un")
        \o "pinned message in this channel."

\* format!("{username} pinned a message in {channel_name}") and its unpin twin
AuditReason(username, pin, channel_name) ==
    username \o (IF pin THEN " pinned a message in " ELSE " unpinned a message in ")
        \o channel_name

----------------------------------------------------------------------------
(* Decisions taken by main and handle_command *)

\* Ready: user_id = Some(ready.user.id)
KeepFirstIdentity(old, new) == IF IsSome(old) THEN old ELSE Some(new)

StoreIdentity(old, new) == Some(new)

\* user_id == Some(message.author.id) && message.kind == ChannelMessagePinned
AnyPinNotice(uid, message) == message.kind = "ChannelMessagePinned"

IsOwnPinNotice(uid, message) ==
    /\ uid = Some(message.author)
    /\ message.kind = "ChannelMessagePinned"

\* error.is_fatal() decides the break
NeverFatal(error) == FALSE

is_fatal(error) == error.fatal

\* match data.name.as_str(): Some(pin) for the two commands, None for `_`
EveryNamePins(name) ==
    IF name = "Unpin Message" THEN Some(FALSE) ELSE Some(TRUE)

CommandPin(name) ==
    CASE name = "Pin Message" -> Some(TRUE)
      [] name = "Unpin Message" -> Some(FALSE)
      [] OTHER -> None

\* the `?` on a REST future: an Err result returns from handle_command
NeverPropagates(res) == FALSE

Propagates(res) == res = "err"

\* channel.name.as_deref().unwrap_or("")
ChannelNameOf(e) ==
    LET name == Unwrap(e.channel).name
    IN  IF IsSome(name) THEN Unwrap(name) ELSE ""

\* `if let Err(e) = handle_command(..).await { log::error!(..) }` in the loop:
\* the status of the loop and the lines logged once the handler returned res
CommandErrorBreaks(res, lines) ==
    IF res = "err"
    THEN [status |-> "exited", pc |-> "stopped",
          logged |-> Append(lines, "Command failed")]
    ELSE [status |-> "running", pc |-> "next_event", logged |-> lines]

AfterCommand(res, lines) ==
    IF res = "err"
    THEN [status |-> "running", pc |-> "next_event",
          logged |-> Append(lines, "Command failed")]
    ELSE [status |-> "running", pc |-> "next_event", logged |-> lines]

\* the follow-up request built from the result of the pin call (lines 190-208)
AlwaysSuccessFollowup(result, e, pin) ==
    [content |-> SuccessContent(Unwrap(e.author), pin),
     components |-> button(Unwrap(e.guild_id), Unwrap(e.channel).id,
                           Unwrap(e.resolved))]

FollowupRequest(result, e, pin) ==
    IF result = "err"
    THEN [content |-> FAILURE_TEXT, components |-> <<>>]
    ELSE [content |-> SuccessContent(Unwrap(e.author), pin),
          components |-> button(Unwrap(e.guild_id), Unwrap(e.channel).id,
                                Unwrap(e.resolved))]

\* handle_command up to its first await (lines 128-160)
HandleCommandStart(e) ==
    IF e.channel = None
    THEN \* expect("Message command must have a channel id")
         [status |-> "panicked", pc |-> "stopped", calls |-> <<>>]
    ELSE IF e.guild_id = None
    THEN [status |-> "running", pc |-> "guild_only",
          calls |-> Issue(<<>>, "create_response", guild_only)]
    ELSE IF CommandPin(e.name) = None
    THEN \* _ => return Ok(())
         [status |-> "running", pc |-> "next_event", calls |-> <<>>]
    ELSE IF e.resolved = None
    THEN \* expect("Message command is missing resolved message!")
         [status |-> "panicked", pc |-> "stopped", calls |-> <<>>]
    ELSE [status |-> "running", pc |-> "defer",
          calls |-> Issue(<<>>, "create_response", DEFER)]

\* the pin or unpin request of lines 170-180.  reason(..).unwrap() and the
\* content(..)? / components(..)? validations of the follow-up cannot fail for
\* these payloads: they stay far below the length limits that are validated.
PinRequest(e, pin) ==
    Call(IF pin THEN "create_pin" ELSE "delete_pin",
         [channel_id |-> Unwrap(e.channel).id,
          message_id |-> Unwrap(e.resolved),
          reason |-> AuditReason(Unwrap(e.author), pin, ChannelNameOf(e))])

----------------------------------------------------------------------------
(* The program *)

Init ==
    /\ user_id = None
    /\ status = "running"
    /\ pc = "next_event"
    /\ event = NoEvent
    /\ calls = <<>>
    /\ logged = <<>>
    /\ prev = "NoEvent"
    /\ first_ready = None
    /\ last_ready = None

\* shard.next_event().await yields e: the loop is running and not inside a handler
TakeWhileAwaiting(e) ==
    /\ status = "running"
    /\ event' = e
    /\ prev' = Outcome(event, logged)

Take(e) ==
    /\ status = "running"
    /\ pc = "next_event"
    /\ event' = e
    /\ prev' = Outcome(event, logged)

\* Ok(Event::Ready(ready))
OnReady(e) ==
    /\ Take(e)
    /\ user_id' = StoreIdentity(user_id, e.user)
    /\ first_ready' = IF IsSome(first_ready) THEN first_ready ELSE Some(e.user)
    /\ last_ready' = Some(e.user)
    /\ calls' = <<>>
    /\ logged' = <<>>
    /\ UNCHANGED <<status, pc>>

\* Ok(Event::InteractionCreate(ref interaction))
OnInteractionAnyData(e) ==
    /\ Take(e)
    /\ LET h == HandleCommandStart(e)
       IN  /\ status' = h.status
           /\ pc' = h.pc
           /\ calls' = h.calls
    /\ logged' = <<>>
    /\ UNCHANGED <<user_id, first_ready, last_ready>>

OnInteractionCreate(e) ==
    /\ Take(e)
    /\ IF e.data = "ApplicationCommand"
       THEN LET h == HandleCommandStart(e)
            IN  /\ status' = h.status
                /\ pc' = h.pc
                /\ calls' = h.calls
       ELSE /\ calls' = <<>>
            /\ UNCHANGED <<status, pc>>
    /\ logged' = <<>>
    /\ UNCHANGED <<user_id, first_ready, last_ready>>

\* Ok(Event::MessageCreate(message))
OnMessageCreate(e) ==
    /\ Take(e)
    /\ IF IsOwnPinNotice(user_id, e)
       THEN /\ calls' = Issue(<<>>, "delete_message",
                              [channel_id |-> e.channel_id, message_id |-> e.id])
            /\ pc' = "delete_message"
       ELSE /\ calls' = <<>>
            /\ pc' = pc
    /\ logged' = <<>>
    /\ UNCHANGED <<user_id, status, first_ready, last_ready>>

\* Err(error)
OnError(e) ==
    /\ Take(e)
    /\ logged' = <<"Error in event loop">>
    /\ IF is_fatal(e)
       THEN status' = "exited" /\ pc' = "stopped"
       ELSE UNCHANGED <<status, pc>>
    /\ calls' = <<>>
    /\ UNCHANGED <<user_id, first_ready, last_ready>>

\* _ => {}
OnOther(e) ==
    /\ Take(e)
    /\ calls' = <<>>
    /\ logged' = <<>>
    /\ UNCHANGED <<user_id, status, pc, first_ready, last_ready>>

\* create_response(.., &guild_only()).await? ; return Ok(())
GuildOnlyReturns(res) ==
    /\ status = "running"
    /\ pc = "guild_only"
    /\ calls' = Returned(calls, res)
    /\ LET a == AfterCommand(IF Propagates(res) THEN "err" ELSE "ok", logged)
       IN  /\ status' = a.status
           /\ pc' = a.pc
           /\ logged' = a.logged
    /\ UNCHANGED <<user_id, event, prev, first_ready, last_ready>>

\* create_response(.., &DEFER).await? ; then lines 162-180 up to the pin call
DeferReturns(res) ==
    /\ status = "running"
    /\ pc = "defer"
    /\ IF Propagates(res)
       THEN LET a == AfterCommand("err", logged)
            IN  /\ calls' = Returned(calls, res)
                /\ status' = a.status
                /\ pc' = a.pc
                /\ logged' = a.logged
       ELSE IF event.author = None
       THEN \* event.author().unwrap()
            /\ calls' = Returned(calls, res)
            /\ status' = "panicked"
            /\ pc' = "stopped"
            /\ logged' = logged
       ELSE /\ calls' = Append(Returned(calls, res),
                               PinRequest(event, Unwrap(CommandPin(event.name))))
            /\ status' = status
            /\ pc' = "pin"
            /\ logged' = logged
    /\ UNCHANGED <<user_id, event, prev, first_ready, last_ready>>

\* the pin call returns `result`; lines 182-207 up to the follow-up send
PinReturns(res) ==
    /\ status = "running"
    /\ pc = "pin"
    /\ calls' = Issue(Returned(calls, res), "create_followup",
                      FollowupRequest(res, event, Unwrap(CommandPin(event.name))))
    /\ logged' = Append(logged,
                        IF res = "err" THEN "Failed to process pin due to error"
                        ELSE SuccessContent(Unwrap(event.author),
                                            Unwrap(CommandPin(event.name))))
    /\ pc' = "followup"
    /\ UNCHANGED <<user_id, status, event, prev, first_ready, last_ready>>

\* request...await? ; Ok(())
FollowupRetried(res) ==
    /\ status = "running"
    /\ pc = "followup"
    /\ IF res = "err" /\ Len(calls) < 4
       THEN /\ calls' = Append(Returned(calls, res),
                               [calls[Len(calls)] EXCEPT !.res = "pending"])
            /\ UNCHANGED <<status, pc, logged>>
       ELSE /\ calls' = Returned(calls, res)
            /\ status' = "running"
            /\ pc' = "next_event"
            /\ logged' = logged
    /\ UNCHANGED <<user_id, event, prev, first_ready, last_ready>>

FollowupReturns(res) ==
    /\ status = "running"
    /\ pc = "followup"
    /\ calls' = Returned(calls, res)
    /\ LET a == AfterCommand(IF Propagates(res) THEN "err" ELSE "ok", logged)
       IN  /\ status' = a.status
           /\ pc' = a.pc
           /\ logged' = a.logged
    /\ UNCHANGED <<user_id, event, prev, first_ready, last_ready>>

\* `if let Err(e) = http.delete_message(..).await { log::error!(..) }`
DeleteMessageRetried(res) ==
    /\ status = "running"
    /\ pc = "delete_message"
    /\ IF res = "err" /\ Len(calls) < 2
       THEN /\ calls' = Append(Returned(calls, res),
                               [calls[Len(calls)] EXCEPT !.res = "pending"])
            /\ logged' = Append(logged, "Failed to delete pin message")
            /\ pc' = pc
       ELSE /\ calls' = Returned(calls, res)
            /\ logged' = logged
            /\ pc' = "next_event"
    /\ UNCHANGED <<user_id, status, event, prev, first_ready, last_ready>>

DeleteMessageReturns(res) ==
    /\ status = "running"
    /\ pc = "delete_message"
    /\ calls' = Returned(calls, res)
    /\ logged' = IF res = "err"
                 THEN Append(logged, "Failed to delete pin message")
                 ELSE logged
    /\ pc' = "next_event"
    /\ UNCHANGED <<user_id, status, event, prev, first_ready, last_ready>>

Next ==
    \/ \E e \in ReadyEvents : OnReady(e)
    \/ \E e \in CommandEvents \cup NonCommandEvents : OnInteractionCreate(e)
    \/ \E e \in MessageEvents : OnMessageCreate(e)
    \/ \E e \in ErrorEvents : OnError(e)
    \/ \E e \in OtherEvents : OnOther(e)
    \/ \E res \in Results : GuildOnlyReturns(res)
    \/ \E res \in Results : DeferReturns(res)
    \/ \E res \in Results : PinReturns(res)
    \/ \E res \in Results : FollowupReturns(res)
    \/ \E res \in Results : DeleteMessageReturns(res)

Spec == Init /\ [][Next]_vars

----------------------------------------------------------------------------
(* Vocabulary of the properties *)

IsCommand == event.type = "InteractionCreate" /\ event.data = "ApplicationCommand"

Recognized == {"Pin Message", "Unpin Message"}

\* handle_command returned to the loop (it neither awaits nor panicked)
Returned_To_Loop == status = "running" /\ pc = "next_event"

ResponseIdx == {i \in DOMAIN calls : calls[i].op = "create_response"}
DeferIdx == {i \in ResponseIdx : calls[i].args = DEFER}
GuildOnlyIdx == {i \in ResponseIdx : calls[i].args = guild_only}
PinIdx == {i \in DOMAIN calls : calls[i].op \in {"create_pin", "delete_pin"}}
FollowupIdx == {i \in DOMAIN calls : calls[i].op = "create_followup"}
DeleteIdx == {i \in DOMAIN calls : calls[i].op = "delete_message"}

----------------------------------------------------------------------------
(* C1 *)

----------------------------------------------------------------------------
(* C2 *)

\* C2: a command invocation that did not originate in a guild gets exactly one
\* request, the non-deferred guild-only response, and nothing else: no
\* deferral, no create-pin or delete-pin, no follow-up.
C2_DirectMessageGetsGuildOnly ==
    (IsCommand /\ event.guild_id = None)
        => /\ Len(calls) = 1
           /\ calls[1].op = "create_response"
           /\ calls[1].args = guild_only

----------------------------------------------------------------------------
(* C3 *)

\* C3 as stated, for the invocations whose handler returned: inside a guild
\* with a recognized name, whatever the REST results, the deferral precedes
\* the pin call and exactly one follow-up comes after the pin call.
C3_AlwaysOneFollowup ==
    (IsCommand /\ IsSome(event.guild_id) /\ event.name \in Recognized
       /\ Returned_To_Loop)
        => /\ Cardinality(FollowupIdx) = 1
           /\ \A k \in FollowupIdx :
                \E i \in PinIdx : \E j \in DeferIdx : j < i /\ i < k

\* C3 amended: inside a guild with a recognized name, the pin call is issued
\* only after a deferral that was sent and succeeded; once the pin call has
\* returned, with success or error, exactly one follow-up has been sent after
\* it; no follow-up is sent without a returned pin call, and never more than
\* one; when the deferral fails neither a pin call nor a follow-up is issued.
C3_DeferThenPinThenOneFollowup ==
    (IsCommand /\ IsSome(event.guild_id) /\ event.name \in Recognized)
        => /\ \A i \in PinIdx :
                \E j \in DeferIdx : j < i /\ calls[j].res = "ok"
           /\ Cardinality(FollowupIdx) <= 1
           /\ \A k \in FollowupIdx :
                \E i \in PinIdx : i < k /\ calls[i].res # "pending"
           /\ \A i \in PinIdx :
                calls[i].res # "pending" =>
                    \E k \in FollowupIdx : i < k
           /\ (\E j \in DeferIdx : calls[j].res = "err")
                => (PinIdx = {} /\ FollowupIdx = {})

C3_Witness ==
    /\ IsCommand
    /\ Returned_To_Loop
    /\ Len(calls) = 3
    /\ calls[1].args = DEFER /\ calls[1].res = "ok"
    /\ calls[2].op = "delete_pin" /\ calls[2].res = "err"
    /\ calls[3].op = "create_followup" /\ calls[3].res = "ok"

----------------------------------------------------------------------------
(* C4 *)

\* C4: whatever came before, a MessageCreate event causes exactly one
\* delete-message call, for that message in its channel, if and only if its
\* author is the stored identity and its kind is the pin notice; for any other
\* author or kind it causes no REST call.
C4_DeleteOnlyOwnPinNotice ==
    event.type = "MessageCreate" =>
        IF user_id = Some(event.author) /\ event.kind = "ChannelMessagePinned"
        THEN /\ Len(calls) = 1
             /\ calls[1].op = "delete_message"
             /\ calls[1].args =
                    [channel_id |-> event.channel_id, message_id |-> event.id]
        ELSE calls = <<>>

C4_Witness ==
    /\ event.type = "MessageCreate"
    /\ user_id = Some(event.author)
    /\ event.kind = "ChannelMessagePinned"
    /\ prev \in {"CommandFailed", "Done"}
    /\ Len(calls) = 1
    /\ calls[1].res = "ok"

----------------------------------------------------------------------------
(* C5 *)

\* the loop is at shard.next_event() and takes whatever event arrives
TakesEveryEvent ==
    /\ \A e \in ReadyEvents : ENABLED OnReady(e)
    /\ \A e \in CommandEvents \cup NonCommandEvents : ENABLED OnInteractionCreate(e)
    /\ \A e \in MessageEvents : ENABLED OnMessageCreate(e)
    /\ \A e \in ErrorEvents : ENABLED OnError(e)
    /\ \A e \in OtherEvents : ENABLED OnOther(e)

\* C5: after a non-fatal transport error the loop is still running and takes
\* every event that arrives next; after a fatal transport error the loop has
\* exited, and from then on nothing is processed: no variable changes and no
\* REST call is issued.
C5_NonFatalContinuesFatalStops ==
    /\ [](event.type = "Error" =>
            IF event.fatal
            THEN status = "exited" /\ calls = <<>>
            ELSE Returned_To_Loop /\ calls = <<>> /\ TakesEveryEvent)
    /\ [][status = "exited" => UNCHANGED vars]_vars

C5_Witness ==
    /\ prev = "TransportError"
    /\ event.type = "MessageCreate"
    /\ Returned_To_Loop
    /\ Len(calls) = 1
    /\ calls[1].res = "ok"

----------------------------------------------------------------------------
(* C6 *)

\* a REST call made by handle_command under `?` returns an error in this step
HandlerCallFails ==
    /\ pc \in {"guild_only", "defer", "followup"}
    /\ calls'[Len(calls)].res = "err"

\* C6: when the guild-only response, the deferral or the follow-up fails,
\* handle_command returns the error, the loop logs "Command failed" and is back
\* at next_event, running, with the stored identity unchanged, so that it
\* takes the next event as after a successful invocation.
C6_HandlerErrorLoggedAndSwallowed ==
    /\ [][HandlerCallFails =>
            /\ user_id' = user_id
            /\ status' = "running"
            /\ pc' = "next_event"
            /\ logged' = Append(logged, "Command failed")
            /\ Len(calls') = Len(calls)]_vars
    /\ []((IsCommand /\ logged # <<>> /\ logged[Len(logged)] = "Command failed")
            => Returned_To_Loop /\ TakesEveryEvent)

C6_Witness ==
    /\ prev = "CommandFailed"
    /\ event.type = "Ready"
    /\ user_id = Some(event.user)
    /\ Returned_To_Loop

----------------------------------------------------------------------------
(* C7 *)

\* C7: the loop stops consuming events only when a fatal transport error has
\* been received, whatever the command invocations carried.
C7_OnlyFatalErrorStops ==
    status # "running" => (event.type = "Error" /\ event.fatal)

----------------------------------------------------------------------------
(* C8 *)

\* C8 as stated: once a Ready event has been received, the stored identity is
\* the one carried by the first Ready event.
C8_IdentityIsFirstReady ==
    IsSome(first_ready) => user_id = first_ready

\* C8 amended: the stored identity is written by every Ready event and by
\* nothing else: it is absent until the first Ready event, and afterwards it
\* is the identity carried by the most recent Ready event.
C8_IdentityIsLatestReady ==
    /\ [](event.type = "Ready" => user_id = Some(event.user))
    /\ [](IsSome(user_id) <=> IsSome(first_ready))
    /\ [][user_id' # user_id =>
            /\ Returned_To_Loop
            /\ event'.type = "Ready"
            /\ user_id' = Some(event'.user)]_vars

C8_Witness ==
    /\ event.type = "Ready"
    /\ IsSome(first_ready)
    /\ first_ready # Some(event.user)
    /\ user_id = Some(event.user)

----------------------------------------------------------------------------
(* C9 *)

\* C9: when the pin or unpin call returned an error, the follow-up that is
\* sent carries the fixed failure text and no component, for "Pin Message" and
\* for "Unpin Message" alike.
C9_FailureFollowupIsGeneric ==
    \A i \in PinIdx :
        calls[i].res = "err" =>
            /\ i + 1 \in FollowupIdx
            /\ calls[i + 1].args.content =
                   "Encountered some error, sorry about that... Try again?"
            /\ calls[i + 1].args.components = <<>>
            /\ FollowupIdx = {i + 1}

C9_Witness ==
    /\ IsCommand
    /\ event.name = "Pin Message"
    /\ Len(calls) = 3
    /\ calls[2].op = "create_pin"
    /\ calls[2].res = "err"
    /\ calls[3].op = "create_followup"

----------------------------------------------------------------------------
(* C10 *)

\* the success follow-up the invocation `e` is owed, spelled out
ExpectedVerb(e) == IF e.name = "Pin Message" THEN "pinned" ELSE "unpinned"

ExpectedUrl(e) ==
    "https://discord.com/channels/" \o ToString(e.guild_id[1]) \o "/"
        \o ToString(e.channel[1].id) \o "/" \o ToString(e.resolved[1])

\* C10: when the pin or unpin call succeeded, the follow-up carries the
\* success content, with "pinned" for "Pin Message" (create-pin) and "unpinned"
\* for "Unpin Message" (delete-pin), and exactly one link button labelled
\* "Message" whose url is built from the invocation's guild id, channel id and
\* target message id; the failure text is not sent.
C10_SuccessFollowupContent ==
    \A i \in PinIdx :
        calls[i].res = "ok" =>
            /\ (calls[i].op = "create_pin") <=> (event.name = "Pin Message")
            /\ FollowupIdx = {i + 1}
            /\ calls[i + 1].args.content =
                   "\\u{1F4CC} **" \o event.author[1] \o "** "
                       \o ExpectedVerb(event) \o " message in this channel."
            /\ calls[i + 1].args.content # FAILURE_TEXT
            /\ Len(calls[i + 1].args.components) = 1
            /\ Len(calls[i + 1].args.components[1].components) = 1
            /\ LET b == calls[i + 1].args.components[1].components[1]
               IN  /\ b.style = "Link"
                   /\ b.url = <<ExpectedUrl(event)>>
                   /\ b.label = <<"Message">>

C10_Witness ==
    /\ IsCommand
    /\ event.name = "Unpin Message"
    /\ event.author = Some("Bob")
    /\ Len(calls) = 3
    /\ calls[2].op = "delete_pin"
    /\ calls[2].res = "ok"
    /\ calls[3].op = "create_followup"
    /\ calls[3].res = "ok"

----------------------------------------------------------------------------
(* C11 *)

PendingIdx == {i \in DOMAIN calls : calls[i].res = "pending"}

\* C11: events are processed one at a time in arrival order: at most one REST
\* request is in flight, the last one issued for the current event, and while
\* it is in flight the only step is its return: the current event stays, the
\* requests already made for it stay, and no other event is taken; so the
\* requests of two events never interleave.
C11_OneEventAtATime ==
    /\ [](PendingIdx \subseteq {Len(calls)})
    /\ [](PendingIdx # {} <=> pc \in {"guild_only", "defer", "pin", "followup",
                                        "delete_message"})
    /\ [][PendingIdx # {} =>
            /\ event' = event
            /\ Len(calls') >= Len(calls)
            /\ calls'[Len(calls)].res \in Results
            /\ \A i \in 1..(Len(calls) - 1) : calls'[i] = calls[i]]_vars

C11_Witness ==
    /\ prev = "CommandFailed"
    /\ event.type = "MessageCreate"
    /\ PendingIdx = {1}

----------------------------------------------------------------------------
(* C12 *)

\* C12, for the invocations that get as far as reading the payload (inside a
\* guild, recognized name): when the payload has no resolved target message or
\* no invoking user, no interaction response is created and no follow-up is
\* sent.
C12_ContractViolationNoResponse ==
    (IsCommand /\ IsSome(event.guild_id) /\ event.name \in Recognized
       /\ (event.resolved = None \/ event.author = None))
        => (ResponseIdx = {} /\ FollowupIdx = {})

----------------------------------------------------------------------------
(* C13 *)

\* C13: when the deferral fails the invocation is abandoned: the deferral is
\* the only request made for it, handle_command has returned the error to the
\* loop, which logged it, and no create-pin, delete-pin or follow-up is issued.
C13_FailedDeferralAbandons ==
    \A j \in DeferIdx :
        calls[j].res = "err" =>
            /\ Len(calls) = 1
            /\ PinIdx = {}
            /\ FollowupIdx = {}
            /\ Returned_To_Loop
            /\ logged = <<"Command failed">>

C13_Witness ==
    /\ IsCommand
    /\ event.name = "Unpin Message"
    /\ IsSome(event.author)
    /\ Len(calls) = 1
    /\ calls[1].args = DEFER
    /\ calls[1].res = "err"

----------------------------------------------------------------------------
(* C14 *)

\* C14: an invocation whose deferral succeeded has exactly one pin request:
\* create-pin for "Pin Message", delete-pin for "Unpin Message", against the
\* invocation's channel and its resolved target message; never a second one
\* and never the other of the two.
C14_OnePinCallAfterDeferral ==
    (IsCommand /\ \E j \in DeferIdx : calls[j].res = "ok")
        => /\ Cardinality(PinIdx) = 1
           /\ \A i \in PinIdx :
                /\ calls[i].op = IF event.name = "Pin Message"
                                 THEN "create_pin" ELSE "delete_pin"
                /\ calls[i].args.channel_id = event.channel[1].id
                /\ calls[i].args.message_id = event.resolved[1]

----------------------------------------------------------------------------
(* C15 *)

\* C15: every Ready event overwrites the stored identity, so the suppression
\* test uses the identity of the most recent Ready event: a MessageCreate
\* event causes a delete-message call exactly when its author is that identity
\* and its kind is the pin notice; a pin notice written by an identity that a
\* later Ready event has replaced is not deleted.
C15_SuppressionUsesLatestReady ==
    /\ user_id = last_ready
    /\ event.type = "MessageCreate" =>
           (DeleteIdx # {} <=>
               (last_ready = <<event.author>>
                  /\ event.kind = "ChannelMessagePinned"))

C15_Witness ==
    /\ event.type = "MessageCreate"
    /\ event.kind = "ChannelMessagePinned"
    /\ first_ready = <<event.author>>
    /\ last_ready # first_ready
    /\ calls = <<>>
    /\ Returned_To_Loop

----------------------------------------------------------------------------
(* C16 *)

\* C16: as long as no Ready event has been received, a MessageCreate event of
\* any author and kind causes no REST call, and the loop is running and back
\* at next_event.
C16_NoSuppressionBeforeReady ==
    (first_ready = None /\ event.type = "MessageCreate")
        => (calls = <<>> /\ Returned_To_Loop)

C16_Witness ==
    /\ first_ready = None
    /\ event.type = "MessageCreate"
    /\ event.kind = "ChannelMessagePinned"
    /\ prev = "Done"
    /\ Returned_To_Loop

----------------------------------------------------------------------------
(* C17 *)

\* the delete-message request returns an error in this step
DeleteFails ==
    /\ pc = "delete_message"
    /\ calls'[Len(calls)].res = "err"

\* C17: when the delete-message call for an own pin notice fails, the failure
\* is logged and nothing else happens: no second delete is issued, the stored
\* identity is unchanged, the loop is running and back at next_event, where
\* it takes every event that arrives.
C17_DeleteFailureOnlyLogged ==
    /\ [](Cardinality(DeleteIdx) <= 1)
    /\ [][DeleteFails =>
            /\ user_id' = user_id
            /\ status' = "running"
            /\ pc' = "next_event"
            /\ Len(calls') = Len(calls)
            /\ logged' = Append(logged, "Failed to delete pin message")]_vars
    /\ []((event.type = "MessageCreate" /\ logged # <<>>)
            => Returned_To_Loop /\ TakesEveryEvent)

C17_Witness ==
    /\ prev = "DeleteFailed"
    /\ event.type = "MessageCreate"
    /\ Len(calls) = 1
    /\ calls[1].res = "ok"
    /\ Returned_To_Loop

----------------------------------------------------------------------------
(* C18 *)

NonCommandInteraction ==
    event.type = "InteractionCreate" /\ event.data # "ApplicationCommand"

\* C18: the stored identity changes only in the step that takes a Ready event;
\* taking any other event, and every step of a command invocation or of a
\* delete, leaves it unchanged.  An event of another kind and an interaction
\* that is not an application command cause no REST call and no log line, and
\* leave the loop at next_event.
C18_Frame ==
    /\ [][event'.type # "Ready" => user_id' = user_id]_vars
    /\ []((event.type = "Other" \/ NonCommandInteraction)
            => calls = <<>> /\ logged = <<>> /\ Returned_To_Loop)

C18_Witness ==
    /\ NonCommandInteraction
    /\ event.guild_id = None
    /\ IsSome(user_id)
    /\ prev = "Done"

----------------------------------------------------------------------------
(* C19 *)

\* C19: for every event and every outcome of the REST calls: at most one
\* interaction response is created (the guild-only response or the deferral,
\* never both), at most one follow-up is sent, a pin call or a follow-up comes
\* only after a deferral of the same invocation that succeeded, and only a
\* command invocation gets any of them.
C19_ProtocolInvariant ==
    /\ Cardinality(ResponseIdx) <= 1
    /\ GuildOnlyIdx # {} => DeferIdx = {}
    /\ Cardinality(FollowupIdx) <= 1
    /\ \A i \in PinIdx \cup FollowupIdx :
            \E j \in DeferIdx : j < i /\ calls[j].res = "ok"
    /\ (ResponseIdx \cup PinIdx \cup FollowupIdx # {}) => IsCommand

C19_Witness ==
    /\ IsCommand
    /\ Len(calls) = 3
    /\ calls[1].args = DEFER
    /\ calls[2].op = "create_pin"
    /\ calls[3].op = "create_followup"
    /\ calls[3].res = "err"
    /\ Returned_To_Loop

----------------------------------------------------------------------------
(* C20 *)

\* a REST call of handle_command returns
HandlerCallReturns ==
    \E res \in Results :
        \/ GuildOnlyReturns(res)
        \/ DeferReturns(res)
        \/ PinReturns(res)
        \/ FollowupReturns(res)

\* C20: an invocation forwarded to handle_command makes at most three REST
\* calls and, as long as each call returns, finishes with the loop back at
\* next_event: in every state of its handling either the handler has returned
\* to the running loop or one of its calls is about to return.
C20_HandlerFinishes ==
    IsCommand =>
        /\ Len(calls) <= 3
        /\ Returned_To_Loop \/ ENABLED HandlerCallReturns

====
